---- MODULE Spec2Model ----
(***************************************************************************)
(* Model of cam.py, a Flask application that serves one Picamera2 device:  *)
(* an MJPEG stream (gen_frames), a still capture handler (capture), the    *)
(* listing handler (latest_capture) and the metadata handler               *)
(* (camera_info).  The Flask development server handles requests in        *)
(* threads, so handlers interleave at the granularity of their calls.      *)
(*                                                                         *)
(* Text is modelled as sequences of one-character strings, so that the     *)
(* string operations of the code (startswith, split, isdigit, int, str,    *)
(* lower, in) are computed the way Python computes them.                   *)
(***************************************************************************)
EXTENDS Integers, Sequences, FiniteSets, TLC

(***************************************************************************)
(* Bounds of the model.                                                    *)
(***************************************************************************)
\* number of /capture requests that are ever issued
MaxReq == 2
\* number of exceptions the camera library raises in one run
MaxRaise == 2

Req == 1..MaxReq

(***************************************************************************)
(* Characters and Python string operations.                                *)
(***************************************************************************)
\* "SUP2" stands for the one character U+00B2 (superscript two): str.isdigit
\* is true of it, int() rejects it.
DecimalChars == <<"0", "1", "2", "3", "4", "5", "6", "7", "8", "9">>

IsDecimalChar(c) == \E i \in 1..10 : DecimalChars[i] = c

DecimalValue(c) == (CHOOSE i \in 1..10 : DecimalChars[i] = c) - 1

\* str.isdigit on one character
IsDigitChar(c) == IsDecimalChar(c) \/ c = "SUP2"

\* s.isdigit(): all characters are digits and there is at least one
isdigit(s) == Len(s) > 0 /\ \A i \in 1..Len(s) : IsDigitChar(s[i])

\* s.startswith(p)
startswith(s, p) == Len(s) >= Len(p) /\ SubSeq(s, 1, Len(p)) = p

\* s.split(sep) for a one-character separator: the list of the segments
RECURSIVE split(_, _)
split(s, sep) ==
    IF \E i \in 1..Len(s) : s[i] = sep
    THEN LET i == CHOOSE k \in 1..Len(s) :
                      s[k] = sep /\ \A j \in 1..(k - 1) : s[j] # sep
         IN  <<SubSeq(s, 1, i - 1)>> \o split(SubSeq(s, i + 1, Len(s)), sep)
    ELSE <<s>>

\* the value of a string of decimal characters
RECURSIVE DecimalNumber(_)
DecimalNumber(s) ==
    IF Len(s) = 0 THEN 0
    ELSE 10 * DecimalNumber(SubSeq(s, 1, Len(s) - 1)) + DecimalValue(s[Len(s)])

\* int(s): the number, or ValueError when s is empty or holds a character
\* that is no decimal digit
int(s) ==
    IF Len(s) > 0 /\ \A i \in 1..Len(s) : IsDecimalChar(s[i])
    THEN [ok |-> TRUE, val |-> DecimalNumber(s), exc |-> "none"]
    ELSE [ok |-> FALSE, val |-> 0, exc |-> "ValueError"]

\* str(n) of a non-negative integer, as the f-string of line 103 formats it
RECURSIVE str_int(_)
str_int(n) ==
    IF n < 10 THEN <<DecimalChars[n + 1]>>
    ELSE str_int(n \div 10) \o <<DecimalChars[(n % 10) + 1]>>

\* s.lower()
LowerChar(c) ==
    CASE c = "I" -> "i"
      [] c = "M" -> "m"
      [] c = "X" -> "x"
      [] c = "O" -> "o"
      [] c = "V" -> "v"
      [] OTHER -> c

lower(s) == [i \in 1..Len(s) |-> LowerChar(s[i])]

\* sub in s
contains(s, sub) ==
    \E i \in 0..(Len(s) - Len(sub)) : SubSeq(s, i + 1, i + Len(sub)) = sub

Max(S) == CHOOSE x \in S : \A y \in S : y <= x

(***************************************************************************)
(* File names of the capture folder.                                       *)
(***************************************************************************)
Prefix == <<"c", "a", "p", "t", "u", "r", "e", "_">>

Jpg == <<".", "j", "p", "g">>

Png == <<".", "p", "n", "g">>

\* f'capture_{n}.jpg' (line 103)
capture_filename(n) == Prefix \o str_int(n) \o Jpg

\* files that may lie in the folder when a request arrives: earlier captures,
\* and files put there by hand
Capture3 == capture_filename(3)
Capture7 == capture_filename(7)
Capture9 == capture_filename(9)
Capture10 == capture_filename(10)
CaptureAbc == Prefix \o <<"a", "b", "c">> \o Jpg
CaptureEmpty == Prefix \o Jpg
Capture9Png == Prefix \o <<"9">> \o Png
CaptureSup2 == Prefix \o <<"SUP2">> \o Jpg
Notes == <<"n", "o", "t", "e", "s", ".", "t", "x", "t">>

NameUniverse ==
    {Capture3, Capture7, Capture9, Capture10, CaptureAbc, CaptureEmpty,
     Capture9Png, CaptureSup2, Notes}

\* folders the device users are started on
StartFolders == {{}, {Capture9}, {CaptureSup2}}

\* folders /latest_capture is followed on while captures are added
ListingFolders == SUBSET {Capture3, Capture9, Capture10, Notes}

\* name is capture_<n>.jpg, n a non-negative decimal integer
IsCaptureName(f) ==
    /\ startswith(f, Prefix)
    /\ Len(f) > Len(Prefix) + Len(Jpg)
    /\ SubSeq(f, Len(f) - Len(Jpg) + 1, Len(f)) = Jpg
    /\ \A i \in (Len(Prefix) + 1)..(Len(f) - Len(Jpg)) : IsDecimalChar(f[i])

\* the n of capture_<n>.jpg
CaptureNumber(f) == DecimalNumber(SubSeq(f, Len(Prefix) + 1, Len(f) - Len(Jpg)))

(***************************************************************************)
(* get_next_capture_number (lines 77-80) on a folder listing.              *)
(***************************************************************************)
\* f.split('_')[1].split('.')[0]
numeric_component(f) == split(split(f, "_")[2], ".")[1]

get_next_capture_number_without_increment(listing) ==
    LET existing_files == {f \in listing : startswith(f, Prefix)}
        numbered == {f \in existing_files : isdigit(numeric_component(f))}
        numbers == {int(numeric_component(f)).val : f \in numbered}
    IN  IF \E f \in numbered : ~int(numeric_component(f)).ok
        THEN [ok |-> FALSE, val |-> 0, exc |-> "ValueError"]
        ELSE [ok |-> TRUE, val |-> IF numbers = {} THEN 0 ELSE Max(numbers),
              exc |-> "none"]

get_next_capture_number(listing) ==
    LET existing_files == {f \in listing : startswith(f, Prefix)}
        numbered == {f \in existing_files : isdigit(numeric_component(f))}
        numbers == {int(numeric_component(f)).val : f \in numbered}
    IN  IF \E f \in numbered : ~int(numeric_component(f)).ok
        THEN [ok |-> FALSE, val |-> 0, exc |-> "ValueError"]
        ELSE [ok |-> TRUE, val |-> (IF numbers = {} THEN 0 ELSE Max(numbers)) + 1,
              exc |-> "none"]

(***************************************************************************)
(* latest_capture (lines 133-142) on a folder listing.                     *)
(***************************************************************************)
\* an order of the characters that occur in capture names, as Python
\* compares strings (used by the string comparison below only)
CharCode(c) ==
    IF IsDecimalChar(c) THEN 48 + DecimalValue(c)
    ELSE IF c = "." THEN 46
    ELSE IF c = "_" THEN 95
    ELSE 97

RECURSIVE StrLeq(_, _)
StrLeq(a, b) ==
    IF Len(a) = 0 THEN TRUE
    ELSE IF Len(b) = 0 THEN FALSE
    ELSE IF CharCode(a[1]) # CharCode(b[1]) THEN CharCode(a[1]) < CharCode(b[1])
    ELSE StrLeq(Tail(a), Tail(b))

\* max(files): the names compared as strings
max_by_string(files) == {f \in files : \A g \in files : StrLeq(g, f)}

\* max(files, key=lambda x: int(x.split('_')[1].split('.')[0])) (line 139);
\* os.listdir gives the names in any order, and max returns the first of
\* the greatest, so any of the greatest may be returned
max_by_number(files) ==
    {f \in files :
        \A g \in files : int(numeric_component(g)).val <= int(numeric_component(f)).val}

NoText == <<>>

latest_capture_responses(listing) ==
    LET files == {f \in listing : startswith(f, Prefix)}
    IN  IF files = {}
        THEN {[status |-> 404, success |-> FALSE, filename |-> NoText,
               error |-> "No captures found"]}
        ELSE IF \E f \in files : ~int(numeric_component(f)).ok
        THEN {[status |-> 500, success |-> FALSE, filename |-> NoText,
               error |-> "ValueError"]}
        ELSE {[status |-> 200, success |-> TRUE, filename |-> f, error |-> ""] :
                 f \in max_by_number(files)}

(***************************************************************************)
(* Module start (lines 16-75): the camera is identified, the profile is    *)
(* chosen, the two configurations are built.                               *)
(***************************************************************************)
Imx708 == <<"i", "m", "x", "7", "0", "8">>

CameraModels == {<<"I", "M", "X", "7", "0", "8">>, <<"i", "m", "x", "4", "7", "7">>}

\* picam2.global_camera_info(): the list that describes the attached camera
global_camera_info(model) == [kind |-> "list", text |-> model]

\* the function object that line 149 binds
FunctionObject(name) == [kind |-> "function", text |-> <<name>>]

\* str(v) of a value a module name may be bound to
str(v) ==
    IF v.kind = "list" THEN <<"[">> \o v.text \o <<"]">>
    ELSE <<"<", "function", " ">> \o v.text \o <<">">>

\* is_v3 of line 18
classify(info) == contains(lower(str(info)), Imx708)

\* lines 23-71
video_config_of(v3) ==
    IF v3 THEN [kind |-> "video", size |-> <<1920, 1080>>]
    ELSE [kind |-> "video", size |-> <<640, 480>>]

still_config_of(v3) ==
    IF v3 THEN [kind |-> "still", size |-> <<4608, 2592>>]
    ELSE [kind |-> "still", size |-> <<0, 0>>]

\* the module's names after the module body has run, in the order of the
\* statements: camera_info is bound at line 17, read at line 18, and bound
\* again by the def of line 149
module_globals(model) ==
    LET camera_info_17 == global_camera_info(model)
        is_v3_18 == classify(camera_info_17)
        camera_info_149 == FunctionObject("camera_info")
    IN  [is_v3 |-> is_v3_18, camera_info |-> camera_info_149]

(***************************************************************************)
(* State.                                                                  *)
(***************************************************************************)
VARIABLES
    device_model,  \* the model name of the attached camera
    is_v3,         \* module name is_v3 (line 18)
    camera_info,   \* the value the module name camera_info is bound to
    dev,           \* picam2: [started, config]
    fs,            \* the capture folder: file name -> content
    pc,            \* pc[r]: the line request r of /capture is at
    n,             \* n[r] of line 102
    filename,      \* filename[r] of line 103
    e,             \* e[r]: the exception bound at line 123
    trace,         \* trace[r]: the calls request r has made, with their outcome
    solo,          \* solo[r]: no other /capture request has run beside r
    responses,     \* the responses of /capture, in the order they were returned
    gen_pc,        \* the line the generator of /video_feed is at
    frame,         \* the last frame gen_frames has read
    latest_response,  \* the last response of /latest_capture
    info_response,    \* the last response of /camera_info
    next_number       \* the last result of a call of get_next_capture_number

vars ==
    <<device_model, is_v3, camera_info, dev, fs, pc, n, filename, e, trace, solo,
      responses, gen_pc, frame, latest_response, info_response, next_number>>

video_config == video_config_of(is_v3)

still_config == still_config_of(is_v3)

\* the arguments of picam2.configure at lines 74, 108, 119 and 127
startup_mode_still == still_config_of(is_v3)

startup_mode == video_config_of(is_v3)

capture_mode_video == video_config

capture_mode == still_config

restore_mode_still == still_config

restore_mode == video_config

recovery_mode_still == still_config

recovery_mode == video_config

\* picam2.stop(), picam2.configure(c), picam2.start() on the device
picam2_stop(d) == [d EXCEPT !.started = FALSE]

picam2_configure(d, c) == [d EXCEPT !.config = c]

picam2_start(d) == [d EXCEPT !.started = TRUE]

\* the image picam2.capture_file takes: a frame in the active configuration
picam2_capture(d) == d.config

NoException == [type |-> "none", msg |-> NoText]

NoResponse == [status |-> 0, success |-> FALSE, filename |-> NoText, error |-> ""]

\* /latest_capture has been requested and has not answered yet
Pending == [status |-> 1, success |-> FALSE, filename |-> NoText, error |-> ""]

NoNumber == [ok |-> FALSE, val |-> 0, exc |-> "not called"]

NoConfig == [kind |-> "none", size |-> <<0, 0>>]

NoFrame == [kind |-> "no frame", size |-> <<0, 0>>]

NoInfo == [status |-> 0, is_v3 |-> FALSE, info |-> NoText, type |-> ""]

\* a file that lay in the folder before the requests: it has been written
\* once, by no request of this run
ExternalFile == [image |-> [kind |-> "external", size |-> <<0, 0>>], by |-> 0, writes |-> 1]

\* the state once the module body has run on a folder that holds `names`
Started(model, names) ==
    /\ device_model = model
    /\ is_v3 = module_globals(model).is_v3
    /\ camera_info = module_globals(model).camera_info
    /\ dev = picam2_start(picam2_configure(
                 [started |-> FALSE, config |-> NoConfig], startup_mode))
    /\ fs = [f \in names |-> ExternalFile]
    /\ pc = [r \in Req |-> "idle"]
    /\ n = [r \in Req |-> 0]
    /\ filename = [r \in Req |-> NoText]
    /\ e = [r \in Req |-> NoException]
    /\ trace = [r \in Req |-> <<>>]
    /\ solo = [r \in Req |-> TRUE]
    /\ responses = <<>>
    /\ gen_pc = "none"
    /\ frame = NoFrame
    /\ latest_response = NoResponse
    /\ info_response = NoInfo
    /\ next_number = NoNumber

Init == \E model \in CameraModels : \E names \in StartFolders : Started(model, names)

InitListing ==
    \E model \in CameraModels : \E names \in ListingFolders : Started(model, names)

InitFiles ==
    \E model \in CameraModels : \E names \in SUBSET NameUniverse : Started(model, names)

(***************************************************************************)
(* /capture (lines 99-131), one action per statement.                      *)
(***************************************************************************)
InFlight(r) == pc[r] \notin {"idle", "done"}

Raised(r) == {k \in 1..Len(trace[r]) : ~trace[r][k].ok}

RECURSIVE CountRaised(_)
CountRaised(rs) ==
    IF rs = {} THEN 0
    ELSE LET r == CHOOSE x \in rs : TRUE
         IN  Cardinality(Raised(r)) + CountRaised(rs \ {r})

\* the library may raise as long as the bound on exceptions allows
MayRaise == CountRaised(Req) < MaxRaise

Exception(r, type, op) == [type |-> type, msg |-> <<op, r, Len(trace[r]) + 1>>]

\* trace[r] with one more call: its name, its arguments, the clause it is
\* made in ("try" or "except") and the exception it raised, if any
Logged(r, phase, op, config, path, exc) ==
    [trace EXCEPT ![r] = Append(@,
        [op |-> op, config |-> config, path |-> path, phase |-> phase,
         ok |-> exc = NoException, exc |-> exc])]

\* str(e) of line 131
str_exception(exc) == exc.msg

\* the exception that the except clause of lines 129-130 leaves bound to e
swallowed_replaces(primary, secondary) == secondary

except_pass(primary, secondary) == primary

\* a request arrives; the requests are numbered in the order they arrive
capture_request(r) ==
    /\ pc[r] = "idle"
    /\ \A q \in Req : q < r => pc[q] # "idle"
    /\ pc' = [pc EXCEPT ![r] = "L102"]
    /\ solo' = [q \in Req |->
                   IF q = r THEN \A o \in Req \ {r} : ~InFlight(o)
                   ELSE IF InFlight(q) THEN FALSE
                   ELSE solo[q]]
    /\ UNCHANGED <<device_model, is_v3, camera_info, dev, fs, n, filename, e, trace,
                   responses, gen_pc, frame, latest_response, info_response,
                   next_number>>

\* a request arrives while no other /capture request is being handled
capture_request_alone(r) ==
    /\ \A q \in Req : ~InFlight(q)
    /\ capture_request(r)

\* lines 102-104
capture_filename_step(r) ==
    /\ pc[r] = "L102"
    /\ LET got == get_next_capture_number(DOMAIN fs)
       IN  IF got.ok
           THEN /\ n' = [n EXCEPT ![r] = got.val]
                /\ filename' = [filename EXCEPT ![r] = capture_filename(got.val)]
                /\ trace' = Logged(r, "try", "get_next_capture_number", NoConfig,
                                   NoText, NoException)
                /\ pc' = [pc EXCEPT ![r] = "L107"]
                /\ e' = e
           ELSE /\ e' = [e EXCEPT ![r] = Exception(r, got.exc, "int")]
                /\ trace' = Logged(r, "try", "get_next_capture_number", NoConfig,
                                   NoText, Exception(r, got.exc, "int"))
                /\ pc' = [pc EXCEPT ![r] = "L126"]
                /\ UNCHANGED <<n, filename>>
    /\ UNCHANGED <<device_model, is_v3, camera_info, dev, fs, solo, responses, gen_pc,
                   frame, latest_response, info_response, next_number>>

\* a call of the try body on the device: it takes effect, or it raises and
\* control passes to the except clause of line 123 (a call that raises is
\* taken to leave the device as it was)
TryCall(r, at, op, config, after, next) ==
    /\ pc[r] = at
    /\ \/ /\ dev' = after
          /\ trace' = Logged(r, "try", op, config, NoText, NoException)
          /\ pc' = [pc EXCEPT ![r] = next]
          /\ e' = e
       \/ /\ MayRaise
          /\ dev' = dev
          /\ trace' = Logged(r, "try", op, config, NoText,
                             Exception(r, "RuntimeError", op))
          /\ pc' = [pc EXCEPT ![r] = "L126"]
          /\ e' = [e EXCEPT ![r] = Exception(r, "RuntimeError", op)]
    /\ UNCHANGED <<device_model, is_v3, camera_info, fs, n, filename, solo, responses,
                   gen_pc, frame, latest_response, info_response, next_number>>

\* a call of the recovery (lines 126-128): it takes effect, or it raises and
\* the except clause of lines 129-130 passes
RecoveryCall(r, at, op, config, after, next) ==
    /\ pc[r] = at
    /\ \/ /\ dev' = after
          /\ trace' = Logged(r, "except", op, config, NoText, NoException)
          /\ pc' = [pc EXCEPT ![r] = next]
          /\ e' = e
       \/ /\ MayRaise
          /\ dev' = dev
          /\ trace' = Logged(r, "except", op, config, NoText,
                             Exception(r, "RuntimeError", op))
          /\ pc' = [pc EXCEPT ![r] = "L131"]
          /\ e' = [e EXCEPT ![r] =
                      except_pass(@, Exception(r, "RuntimeError", op))]
    /\ UNCHANGED <<device_model, is_v3, camera_info, fs, n, filename, solo, responses,
                   gen_pc, frame, latest_response, info_response, next_number>>

\* line 107
capture_stop(r) == TryCall(r, "L107", "stop", NoConfig, picam2_stop(dev), "L108")

\* line 108
capture_configure(r) ==
    TryCall(r, "L108", "configure", capture_mode,
            picam2_configure(dev, capture_mode), "L109")

\* line 109
capture_start(r) == TryCall(r, "L109", "start", NoConfig, picam2_start(dev), "L112")

\* lines 112-113
capture_autofocus_wait(r) ==
    /\ pc[r] = "L112"
    /\ pc' = [pc EXCEPT ![r] = "L115"]
    /\ trace' = IF is_v3
                THEN Logged(r, "try", "sleep", NoConfig, NoText, NoException)
                ELSE trace
    /\ UNCHANGED <<device_model, is_v3, camera_info, dev, fs, n, filename, e, solo,
                   responses, gen_pc, frame, latest_response, info_response,
                   next_number>>

\* line 115: the call returns once a started device has delivered a frame,
\* which is written to filepath; or it raises
capture_file(r) ==
    /\ pc[r] = "L115"
    /\ \/ /\ dev.started
          /\ fs' = [f \in DOMAIN fs \cup {filename[r]} |->
                       IF f = filename[r]
                       THEN [image |-> picam2_capture(dev), by |-> r,
                             writes |-> IF f \in DOMAIN fs THEN fs[f].writes + 1 ELSE 1]
                       ELSE fs[f]]
          /\ trace' = Logged(r, "try", "capture_file", NoConfig, filename[r],
                             NoException)
          /\ pc' = [pc EXCEPT ![r] = "L118"]
          /\ e' = e
       \/ /\ MayRaise
          /\ fs' = fs
          /\ trace' = Logged(r, "try", "capture_file", NoConfig, filename[r],
                             Exception(r, "RuntimeError", "capture_file"))
          /\ pc' = [pc EXCEPT ![r] = "L126"]
          /\ e' = [e EXCEPT ![r] = Exception(r, "RuntimeError", "capture_file")]
    /\ UNCHANGED <<device_model, is_v3, camera_info, dev, n, filename, solo, responses,
                   gen_pc, frame, latest_response, info_response, next_number>>

\* line 118
capture_restore_stop(r) ==
    TryCall(r, "L118", "stop", NoConfig, picam2_stop(dev), "L119")

\* line 119
capture_restore_configure(r) ==
    TryCall(r, "L119", "configure", restore_mode,
            picam2_configure(dev, restore_mode), "L120")

\* line 120
capture_restore_start(r) ==
    TryCall(r, "L120", "start", NoConfig, picam2_start(dev), "L122")

\* line 122
capture_return(r) ==
    /\ pc[r] = "L122"
    /\ responses' = Append(responses,
           [req |-> r, status |-> 200, success |-> TRUE, filename |-> filename[r],
            error |-> NoText])
    /\ pc' = [pc EXCEPT ![r] = "done"]
    /\ UNCHANGED <<device_model, is_v3, camera_info, dev, fs, n, filename, e, trace,
                   solo, gen_pc, frame, latest_response, info_response, next_number>>

\* line 126
capture_recovery_stop(r) ==
    RecoveryCall(r, "L126", "stop", NoConfig, picam2_stop(dev), "L127")

\* line 127
capture_recovery_configure(r) ==
    RecoveryCall(r, "L127", "configure", recovery_mode,
                 picam2_configure(dev, recovery_mode), "L128")

\* line 128
capture_recovery_start(r) ==
    RecoveryCall(r, "L128", "start", NoConfig, picam2_start(dev), "L131")

\* line 131
capture_return_error(r) ==
    /\ pc[r] = "L131"
    /\ responses' = Append(responses,
           [req |-> r, status |-> 500, success |-> FALSE, filename |-> NoText,
            error |-> str_exception(e[r])])
    /\ pc' = [pc EXCEPT ![r] = "done"]
    /\ UNCHANGED <<device_model, is_v3, camera_info, dev, fs, n, filename, e, trace,
                   solo, gen_pc, frame, latest_response, info_response, next_number>>

(***************************************************************************)
(* /video_feed and gen_frames (lines 82-97).                               *)
(***************************************************************************)
\* lines 94-97: the response starts to iterate the generator
video_feed ==
    /\ gen_pc = "none"
    /\ gen_pc' = "L84"
    /\ UNCHANGED <<device_model, is_v3, camera_info, dev, fs, pc, n, filename, e,
                   trace, solo, responses, frame, latest_response, info_response,
                   next_number>>

\* lines 84-85: picam2.capture_file(stream) is entered
gen_frames_capture ==
    /\ gen_pc = "L84"
    /\ gen_pc' = "L85"
    /\ UNCHANGED <<device_model, is_v3, camera_info, dev, fs, pc, n, filename, e,
                   trace, solo, responses, frame, latest_response, info_response,
                   next_number>>

\* lines 85-87: a started device delivers a frame, which is yielded
gen_frames_yield ==
    /\ gen_pc = "L85"
    /\ dev.started
    /\ frame' = picam2_capture(dev)
    /\ gen_pc' = "L84"
    /\ UNCHANGED <<device_model, is_v3, camera_info, dev, fs, pc, n, filename, e,
                   trace, solo, responses, latest_response, info_response,
                   next_number>>

\* line 85 raises: nothing catches it, the stream ends
gen_frames_raise ==
    /\ gen_pc = "L85"
    /\ gen_pc' = "ended"
    /\ UNCHANGED <<device_model, is_v3, camera_info, dev, fs, pc, n, filename, e,
                   trace, solo, responses, frame, latest_response, info_response,
                   next_number>>

(***************************************************************************)
(* /latest_capture (lines 133-142) and /camera_info (lines 148-154).       *)
(***************************************************************************)
\* a request of /latest_capture arrives
latest_capture_request ==
    /\ latest_response # Pending
    /\ latest_response' = Pending
    /\ UNCHANGED <<device_model, is_v3, camera_info, dev, fs, pc, n, filename, e,
                   trace, solo, responses, gen_pc, frame, info_response, next_number>>

\* lines 135-142
latest_capture ==
    /\ latest_response = Pending
    /\ latest_response' \in latest_capture_responses(DOMAIN fs)
    /\ UNCHANGED <<device_model, is_v3, camera_info, dev, fs, pc, n, filename, e,
                   trace, solo, responses, gen_pc, frame, info_response, next_number>>

camera_info_route ==
    /\ info_response' =
           [status |-> 200, is_v3 |-> is_v3, info |-> str(camera_info),
            type |-> IF is_v3 THEN "Pi Camera V3" ELSE "HQ or other camera"]
    /\ UNCHANGED <<device_model, is_v3, camera_info, dev, fs, pc, n, filename, e,
                   trace, solo, responses, gen_pc, frame, latest_response,
                   next_number>>

\* a call of get_next_capture_number on the folder as it is
call_get_next_capture_number ==
    /\ next_number' = get_next_capture_number(DOMAIN fs)
    /\ UNCHANGED <<device_model, is_v3, camera_info, dev, fs, pc, n, filename, e,
                   trace, solo, responses, gen_pc, frame, latest_response,
                   info_response>>

(***************************************************************************)
(* Specifications.  The handlers of /latest_capture and /camera_info and   *)
(* the generator only read the device and the folder, so a specification   *)
(* that leaves one of them out reaches the same states of the others.      *)
(***************************************************************************)
\* a step of some /capture request that has arrived
capture_step ==
    \/ \E r \in Req : capture_filename_step(r)
    \/ \E r \in Req : capture_stop(r)
    \/ \E r \in Req : capture_configure(r)
    \/ \E r \in Req : capture_start(r)
    \/ \E r \in Req : capture_autofocus_wait(r)
    \/ \E r \in Req : capture_file(r)
    \/ \E r \in Req : capture_restore_stop(r)
    \/ \E r \in Req : capture_restore_configure(r)
    \/ \E r \in Req : capture_restore_start(r)
    \/ \E r \in Req : capture_return(r)
    \/ \E r \in Req : capture_recovery_stop(r)
    \/ \E r \in Req : capture_recovery_configure(r)
    \/ \E r \in Req : capture_recovery_start(r)
    \/ \E r \in Req : capture_return_error(r)

\* the users of the device: concurrent /capture requests and one /video_feed
Next ==
    \/ \E r \in Req : capture_request(r)
    \/ capture_step
    \/ video_feed
    \/ gen_frames_capture
    \/ gen_frames_yield
    \/ gen_frames_raise

Spec == Init /\ [][Next]_vars

\* /capture requests handled one at a time, and /latest_capture
NextListing ==
    \/ \E r \in Req : capture_request_alone(r)
    \/ capture_step
    \/ latest_capture_request
    \/ latest_capture

SpecListing == InitListing /\ [][NextListing]_vars

\* the handlers that read the folder and the module names, on every folder
\* over NameUniverse
NextFiles ==
    \/ call_get_next_capture_number
    \/ latest_capture_request
    \/ latest_capture
    \/ camera_info_route

SpecFiles == InitFiles /\ [][NextFiles]_vars

\* every handler at once
NextAll == Next \/ NextListing \/ NextFiles

SpecAll == Init /\ [][NextAll]_vars

(***************************************************************************)
(* Notions the properties are stated in.                                   *)
(***************************************************************************)
\* no /capture request is being handled
Quiet == \A q \in Req : ~InFlight(q)

\* the response of /capture that was returned last
Last == responses[Len(responses)]

\* the device is started with the streaming configuration active
Streaming(d) == d.started /\ d.config = video_config

\* a call of the recovery of request r raised
RecoveryRaised(r) == \E k \in Raised(r) : trace[r][k].phase = "except"

\* the exception request r saw first
FirstRaised(r) == trace[r][CHOOSE k \in Raised(r) : \A j \in Raised(r) : k <= j].exc

ResponsesOf(r) == {i \in 1..Len(responses) : responses[i].req = r}

IsDeviceCall(c) == c.phase = "try" /\ c.op \notin {"get_next_capture_number", "sleep"}

\* the calls request r has made on the device in its try body
DeviceCalls(r) == SelectSeq(trace[r], IsDeviceCall)

Call(op, config, path) == [op |-> op, config |-> config, path |-> path]

\* lines 107-120 in order
CaptureOrder(r) ==
    <<Call("stop", NoConfig, NoText), Call("configure", still_config, NoText),
      Call("start", NoConfig, NoText), Call("capture_file", NoConfig, filename[r]),
      Call("stop", NoConfig, NoText), Call("configure", video_config, NoText),
      Call("start", NoConfig, NoText)>>

\* the device calls of r so far are the first calls of CaptureOrder, none
\* follows one that raised, and all of them were made if r answered success
InOrder(r) ==
    LET d == DeviceCalls(r)
    IN  /\ Len(d) <= Len(CaptureOrder(r))
        /\ \A i \in 1..Len(d) :
              /\ Call(d[i].op, d[i].config, d[i].path) = CaptureOrder(r)[i]
              /\ i < Len(d) => d[i].ok
        /\ pc[r] = "L122" => Len(d) = Len(CaptureOrder(r)) /\ d[Len(d)].ok

ConformingFiles(listing) == {f \in listing : IsCaptureName(f)}

\* f starts with capture_ and what follows the underscore is no decimal integer
IsMalformed(f) == startswith(f, Prefix) /\ ~int(numeric_component(f)).ok

\* f is one of the files of `listing` with the greatest number
HasGreatestNumber(f, listing) ==
    /\ f \in ConformingFiles(listing)
    /\ \A g \in ConformingFiles(listing) : CaptureNumber(g) <= CaptureNumber(f)

(***************************************************************************)
(* C1                                                                      *)
(***************************************************************************)
\* C1 as stated: once a /capture request has answered with a failure and no
\* other request is being handled, the device is started with the streaming
\* configuration active.
C1_FailedCaptureRestoresStreaming ==
    (Quiet /\ responses # <<>> /\ ~Last.success) => Streaming(dev)

\* C1 amended: the same, for a failed request whose recovery (lines 126-128)
\* raised nothing and beside which no other /capture request has run.
C1_FailedCaptureRestoresStreamingIfRecoveryRan ==
    (/\ Quiet
     /\ responses # <<>>
     /\ ~Last.success
     /\ solo[Last.req]
     /\ ~RecoveryRaised(Last.req)) => Streaming(dev)

\* a request failed at capture_file, with the still configuration active,
\* recovered alone, and the device streams again
C1_Witness ==
    /\ Quiet
    /\ responses # <<>>
    /\ ~Last.success
    /\ solo[Last.req]
    /\ ~RecoveryRaised(Last.req)
    /\ \E k \in Raised(Last.req) : trace[Last.req][k].op = "capture_file"
    /\ Streaming(dev)

(***************************************************************************)
(* C2                                                                      *)
(***************************************************************************)
\* C2 as stated: once a /capture request has answered success and no other
\* request is being handled, the device is started with the streaming
\* configuration active, the still configuration is not active, and a frame
\* read is taken in the streaming configuration.
C2_SuccessfulCaptureLeavesStreaming ==
    (Quiet /\ responses # <<>> /\ Last.success) =>
        /\ Streaming(dev)
        /\ dev.config # still_config
        /\ picam2_capture(dev) = video_config

\* C2 amended: the same, for a request beside which no other /capture request
\* has run.
C2_SoloSuccessfulCaptureLeavesStreaming ==
    (Quiet /\ responses # <<>> /\ Last.success /\ solo[Last.req]) =>
        /\ Streaming(dev)
        /\ dev.config # still_config
        /\ picam2_capture(dev) = video_config

\* a request that ran alone has written its still and answered success
C2_Witness ==
    /\ Quiet
    /\ responses # <<>>
    /\ Last.success
    /\ solo[Last.req]
    /\ Last.filename \in DOMAIN fs
    /\ fs[Last.filename].image = still_config
    /\ Streaming(dev)

(***************************************************************************)
(* C3                                                                      *)
(***************************************************************************)
\* C3: a request that has returned has answered exactly once, one that has
\* not has not answered; if a call of it raised, the answer is 500 with
\* success false and the text of the first exception, otherwise 200 with
\* success true; an exception of the recovery leaves the first exception
\* bound and leads to the return of line 131.
C3_OneErrorResponseWithPrimaryException ==
    \A r \in Req :
        /\ Cardinality(ResponsesOf(r)) = IF pc[r] = "done" THEN 1 ELSE 0
        /\ \A i \in ResponsesOf(r) :
              IF Raised(r) # {}
              THEN /\ responses[i].status = 500
                   /\ ~responses[i].success
                   /\ responses[i].error = str_exception(FirstRaised(r))
              ELSE /\ responses[i].status = 200
                   /\ responses[i].success
        /\ RecoveryRaised(r) =>
              /\ pc[r] \in {"L131", "done"}
              /\ e[r] = FirstRaised(r)

\* a request whose try body and whose recovery both raised has answered 500
\* with the text of the first exception
C3_Witness ==
    \E r \in Req :
        /\ pc[r] = "done"
        /\ RecoveryRaised(r)
        /\ Cardinality(Raised(r)) = 2
        /\ \E i \in ResponsesOf(r) :
              /\ responses[i].status = 500
              /\ responses[i].error = str_exception(FirstRaised(r))
              /\ FirstRaised(r).msg[1] = "capture_file"

(***************************************************************************)
(* C4                                                                      *)
(***************************************************************************)
\* C4 as stated: on every folder get_next_capture_number returns 1 + the
\* greatest n of the files named capture_<n>.jpg, 1 if there is none, and
\* does not raise.
C4_NextNumberIsGreatestPlusOne ==
    next_number # NoNumber =>
        /\ next_number.ok
        /\ next_number.val =
              1 + (IF ConformingFiles(DOMAIN fs) = {} THEN 0
                   ELSE Max({CaptureNumber(f) : f \in ConformingFiles(DOMAIN fs)}))

(***************************************************************************)
(* C5                                                                      *)
(***************************************************************************)
\* what C5 says of the answer `resp` of /latest_capture on a folder
LatestCaptureAnswer(listing, resp) ==
    /\ (~\E f \in listing : startswith(f, Prefix)) =>
          /\ resp.status = 404
          /\ ~resp.success
          /\ resp.error = "No captures found"
    /\ (listing # {} /\ \A f \in listing : IsCaptureName(f)) =>
          /\ resp.status = 200
          /\ resp.success
          /\ HasGreatestNumber(resp.filename, listing)
    /\ (/\ \A f \in listing : IsCaptureName(f)
        /\ Quiet
        /\ responses # <<>>
        /\ \A i \in 1..Len(responses) : responses[i].success) =>
          resp.filename = Last.filename

C6_MalformedNamesAreFilteredOut ==
    (/\ latest_response \notin {NoResponse, Pending}
     /\ \E f \in DOMAIN fs : IsMalformed(f)) =>
        /\ latest_response.status # 500
        /\ IF ConformingFiles(DOMAIN fs) = {}
           THEN latest_response.status = 404
           ELSE /\ latest_response.status = 200
                /\ HasGreatestNumber(latest_response.filename, DOMAIN fs)

(***************************************************************************)
(* C7                                                                      *)
(***************************************************************************)
\* C7 as stated: /camera_info answers is_v3 as classified at module start,
\* type 'Pi Camera V3' exactly if is_v3, and info the string form of the
\* identification that was queried from the camera at module start.
C7_CameraInfoReportsIdentification ==
    info_response # NoInfo =>
        /\ info_response.is_v3 = classify(global_camera_info(device_model))
        /\ info_response.type =
              (IF info_response.is_v3 THEN "Pi Camera V3" ELSE "HQ or other camera")
        /\ info_response.info = str(global_camera_info(device_model))

(***************************************************************************)
(* C8                                                                      *)
(***************************************************************************)
\* C8 as stated: every request makes its device calls in the order stop,
\* configure(still), start, capture_file(path), stop, configure(video),
\* start; whenever a request is at capture_file the device is started with
\* the still configuration active; every file a capture has written is a
\* still.
C8_CaptureOrderAndStillMode ==
    /\ \A r \in Req :
          /\ InOrder(r)
          /\ pc[r] = "L115" => dev.started /\ dev.config = still_config
    /\ \A f \in DOMAIN fs : fs[f].by \in Req => fs[f].image = still_config

\* C8 amended: the order holds of every request; the device is started with
\* the still configuration active when a request beside which no other
\* /capture request has run is at capture_file, and the files such requests
\* have written are stills.
C8_SoloCaptureOrderAndStillMode ==
    /\ \A r \in Req :
          /\ InOrder(r)
          /\ (pc[r] = "L115" /\ solo[r]) => dev.started /\ dev.config = still_config
    /\ \A f \in DOMAIN fs :
          (fs[f].by \in Req /\ solo[fs[f].by]) => fs[f].image = still_config

\* a request that ran alone has made all seven calls and its file is a still
C8_Witness ==
    \E r \in Req :
        /\ pc[r] = "L122"
        /\ solo[r]
        /\ Len(DeviceCalls(r)) = Len(CaptureOrder(r))
        /\ fs[filename[r]].by = r
        /\ fs[filename[r]].image = still_config

(***************************************************************************)
(* C9                                                                      *)
(***************************************************************************)
\* C9: a file that has been written more than once was last written by a
\* request that ran beside another /capture request: requests handled one
\* at a time never write to a file that exists.  (That two concurrent
\* requests do is the state C9_Witness.)
C9_SoloCaptureNeverOverwrites ==
    \A f \in DOMAIN fs : fs[f].writes >= 2 => (fs[f].by \in Req /\ ~solo[fs[f].by])

\* two requests got the same number, wrote the same file and both answered
\* success with the same file name
C9_Witness ==
    /\ Len(responses) = 2
    /\ responses[1].success
    /\ responses[2].success
    /\ responses[1].req # responses[2].req
    /\ responses[1].filename = responses[2].filename
    /\ n[1] = n[2]
    /\ fs[responses[1].filename].writes = 2

(***************************************************************************)
(* C10                                                                     *)
(***************************************************************************)
\* C10: while no /capture request is being handled and no recovery has
\* raised, every frame gen_frames reads is taken on a started device with
\* the streaming configuration active.  (That it reads a still frame, and
\* that it calls capture_file on a stopped device, while a request is being
\* handled is the state C10_Witness.)
C10_FramesStreamWhenNoCapture ==
    [][(/\ gen_pc = "L85"
        /\ gen_pc' = "L84"
        /\ Quiet
        /\ \A r \in Req : ~RecoveryRaised(r)) =>
          (Streaming(dev) /\ frame' = video_config)]_vars

\* one request is being handled: gen_frames has read a frame in the still
\* configuration, and is now in capture_file while the device is stopped
\* between the stop of line 118 and the start of line 120
C10_Witness ==
    /\ frame = still_config
    /\ gen_pc = "L85"
    /\ ~dev.started
    /\ pc[1] \in {"L119", "L120"}
    /\ \A q \in Req \ {1} : pc[q] = "idle"

====
